---------------------------- MODULE Spec2Model ----------------------------
(***************************************************************************)
(* A model of PEVM: the micro-op interpreter (main.rs: exec_tx,            *)
(* serial_execute) and the conflict graph builder (mis.rs:                 *)
(* build_conflict_graph).                                                  *)
(*                                                                         *)
(* Abstractions, all stated here:                                          *)
(*  - a Key {address, slot} is one of the NumKeys identities 1..NumKeys;   *)
(*  - FlatValue is u64 in the source; the model keeps the arithmetic but   *)
(*    narrows the word to WordBits bits;                                   *)
(*  - DefaultHasher is a streaming hasher: Hash::hash appends the key's    *)
(*    bytes to the stream and finish() digests everything written so far   *)
(*    without resetting it.  The model keeps the stream as the sequence of *)
(*    keys written and takes the digest to be collision free (an injective *)
(*    encoding of the stream), the digest of a stream holding just key k   *)
(*    being k itself;                                                      *)
(*  - u64 `+=` panics on overflow when the build has overflow checks       *)
(*    (the debug profile) and wraps when it has not (the release           *)
(*    profile); the profile is chosen once, in Init;                       *)
(*  - the input is supplied as it is consumed: the next op of a program,   *)
(*    the end of a program and the end of the batch are chosen when        *)
(*    exec_tx / serial_execute reach them, within MaxTx transactions and   *)
(*    MaxOps ops per batch.                                                *)
(*  - GraphSpec runs build_conflict_graph alone, on any records of at most *)
(*    MaxRecs transactions and MaxAccess read or written FlatKeys, the     *)
(*    FlatKeys being 1..NumKeys.                                           *)
(***************************************************************************)
EXTENDS Integers, Sequences, FiniteSets, TLC

\* ------------------------------------------------------------- bounds
NumKeys == 2
MaxTx == 2
MaxOps == 3
WordBits == 3
MaxAccess == 5
MaxRecs == 3

Keys == 1..NumKeys
Modulus == 2 ^ WordBits
Imms == {1, Modulus - 1}

VARIABLES
    profile,   \* "debug" | "release": whether `+=` is overflow-checked
    txs,       \* the transactions serial_execute has taken from its input, the
               \* current one with the ops of its program fetched so far
    state,     \* the store, HashMap<FlatKey, FlatValue>
    results,   \* Vec<TxExecResult> / the Vec<TxRWSet> handed to the builder
    cur,       \* position of serial_execute's loop in txs (1-based)
    ip,        \* number of ops of the current program already executed
    acc,       \* exec_tx's accumulator
    hasher,    \* exec_tx's DefaultHasher: the keys written to it so far
    h,         \* the FlatKey derived by the last SLOAD / SSTORE
    reads,     \* exec_tx's read set
    writes,    \* exec_tx's write set
    pc,        \* "input" | "serial" | "exec" | "panicked" | "build" | "done"
    readers,   \* build_conflict_graph: FlatKey -> set of tx ids
    writers,   \* build_conflict_graph: FlatKey -> set of tx ids
    graph,     \* build_conflict_graph: tx id -> set of tx ids
    gi,        \* position of the indexing loop in the input (1-based)
    visited    \* the keys of `writers` the edge loop has already visited

vars == <<profile, txs, state, results, cur, ip, acc, hasher, h, reads, writes,
          pc, readers, writers, graph, gi, visited>>

execVars == <<state, cur, ip, acc, hasher, h, reads, writes>>
graphVars == <<readers, writers, graph, gi, visited>>

\* ------------------------------------------------------------- types
EmptyMap == [x \in {} |-> 0]

SLOAD(k) == [op |-> "SLOAD", key |-> k, imm |-> 0]
SSTORE(k) == [op |-> "SSTORE", key |-> k, imm |-> 0]
ADD(i) == [op |-> "ADD", key |-> 0, imm |-> i]
NOOP == [op |-> "NOOP", key |-> 0, imm |-> 0]

Tx(id, program) == [id |-> id, program |-> program]

TxRWSet(id, rs, ws) == [id |-> id, reads |-> rs, writes |-> ws]

\* The number of ops of the batch fetched so far.
RECURSIVE OpsFetched(_)
OpsFetched(batch) ==
    IF batch = <<>> THEN 0
    ELSE Len(batch[Len(batch)].program) + OpsFetched(SubSeq(batch, 1, Len(batch) - 1))

\* ------------------------------------------------------------- hashing
\* Hash::hash(key, &mut hasher): the key's bytes are appended to the stream.
HashWrite(hs, k) == Append(hs, k)

\* hasher.finish(): the digest of the whole stream written so far.
RECURSIVE Finish(_)
Finish(hs) ==
    IF hs = <<>> THEN 0
    ELSE Finish(SubSeq(hs, 1, Len(hs) - 1)) * (NumKeys + 1) + hs[Len(hs)]

\* DefaultHasher::new()
NewHasher == <<>>

\* ------------------------------------------------------------- store
\* state.get(&h).cloned().unwrap_or_else(|| 0)
GetOrZero(st, k) == IF k \in DOMAIN st THEN st[k] ELSE 0

\* state.insert(h, acc)
MapInsert(st, k, v) == [x \in DOMAIN st \cup {k} |-> IF x = k THEN v ELSE st[x]]

\* ------------------------------------------------------------- exec_tx
\* A variant of AccInit: the accumulator kept from the previous transaction.
AccCarried == acc

\* let mut acc = 0;
AccInit == 0

CurTx == txs[cur]

\* tx.program.iter() yields op as the next op of the current program.
Fetch(op) ==
    /\ pc = "exec"
    /\ OpsFetched(txs) < MaxOps
    /\ txs' = [txs EXCEPT ![cur].program = Append(@, op)]
    /\ ip' = ip + 1

\* serial_execute's loop takes the next Tx and calls exec_tx, which sets up
\* its locals.  generate_block numbers the transactions by position.
BeginTx ==
    /\ pc = "serial"
    /\ Len(txs) < MaxTx
    /\ txs' = Append(txs, Tx(Len(txs), <<>>))
    /\ cur' = Len(txs) + 1
    /\ reads' = {}
    /\ writes' = {}
    /\ acc' = AccInit
    /\ hasher' = NewHasher
    /\ h' = 0
    /\ ip' = 0
    /\ pc' = "exec"
    /\ UNCHANGED <<profile, state, results>>
    /\ UNCHANGED graphVars

\* acc += v on u64: the sum, a panic, or the wrapped sum, as the build decides.
AddTo(a, v) ==
    IF a + v < Modulus THEN [panic |-> FALSE, val |-> a + v]
    ELSE IF profile = "debug" THEN [panic |-> TRUE, val |-> a]
    ELSE [panic |-> FALSE, val |-> (a + v) % Modulus]

\* A variant of ExecSLOAD: the load creates the entry it did not find.
ExecSLOADInserting ==
    \E k \in Keys :
        /\ Fetch(SLOAD(k))
        /\ LET hs == HashWrite(hasher, k)
               fk == Finish(hs)
               r == AddTo(acc, GetOrZero(state, fk))
           IN /\ hasher' = hs
              /\ h' = fk
              /\ state' = MapInsert(state, fk, GetOrZero(state, fk))
              /\ IF r.panic
                 THEN /\ pc' = "panicked"
                      /\ UNCHANGED <<acc, reads>>
                 ELSE /\ acc' = r.val
                      /\ reads' = reads \cup {fk}
                      /\ pc' = pc
        /\ UNCHANGED <<profile, results, cur, writes>>
        /\ UNCHANGED graphVars

\* MicroOp::SLOAD { key }
ExecSLOAD ==
    \E k \in Keys :
        /\ Fetch(SLOAD(k))
        /\ LET hs == HashWrite(hasher, k)
               fk == Finish(hs)
               r == AddTo(acc, GetOrZero(state, fk))
           IN /\ hasher' = hs
              /\ h' = fk
              /\ IF r.panic
                 THEN /\ pc' = "panicked"
                      /\ UNCHANGED <<acc, reads>>
                 ELSE /\ acc' = r.val
                      /\ reads' = reads \cup {fk}
                      /\ pc' = pc
        /\ UNCHANGED <<profile, state, results, cur, writes>>
        /\ UNCHANGED graphVars

\* MicroOp::SSTORE { key }
ExecSSTORE ==
    \E k \in Keys :
        /\ Fetch(SSTORE(k))
        /\ LET hs == HashWrite(hasher, k)
               fk == Finish(hs)
           IN /\ hasher' = hs
              /\ h' = fk
              /\ state' = MapInsert(state, fk, acc)
              /\ writes' = writes \cup {fk}
        /\ UNCHANGED <<profile, results, cur, acc, reads, pc>>
        /\ UNCHANGED graphVars

\* MicroOp::ADD { imm }
ExecADD ==
    \E i \in Imms :
        /\ Fetch(ADD(i))
        /\ LET r == AddTo(acc, i)
           IN IF r.panic
              THEN /\ pc' = "panicked"
                   /\ UNCHANGED acc
              ELSE /\ acc' = r.val
                   /\ pc' = pc
        /\ UNCHANGED <<profile, state, results, cur, hasher, h, reads, writes>>
        /\ UNCHANGED graphVars

\* MicroOp::NOOP
ExecNOOP ==
    /\ Fetch(NOOP)
    /\ UNCHANGED <<profile, state, results, cur, acc, hasher, h, reads, writes, pc>>
    /\ UNCHANGED graphVars

\* The program is exhausted: exec_tx returns its TxExecResult and
\* serial_execute pushes it.
EndTx ==
    /\ pc = "exec"
    /\ results' = Append(results, TxRWSet(CurTx.id, reads, writes))
    /\ pc' = "serial"
    /\ UNCHANGED <<profile, txs, state, cur, ip, acc, hasher, h, reads, writes>>
    /\ UNCHANGED graphVars

\* The batch is exhausted: serial_execute returns (state, results); the
\* records go to the builder.
Return ==
    /\ pc = "serial"
    /\ pc' = "build"
    /\ UNCHANGED <<profile, txs, results>>
    /\ UNCHANGED execVars
    /\ UNCHANGED graphVars

\* ------------------------------------------------ build_conflict_graph
FlatKeys == 1..NumKeys

\* The number of keys in the read and write sets of the records.
RECURSIVE Accesses(_)
Accesses(recs) ==
    IF recs = <<>> THEN 0
    ELSE Cardinality(recs[Len(recs)].reads) + Cardinality(recs[Len(recs)].writes)
           + Accesses(SubSeq(recs, 1, Len(recs) - 1))

\* A caller of build_conflict_graph builds its Vec<TxRWSet> record by record.
\* The ids are consecutive; a producer that keeps the documented equivalence
\* of ids and positions starts them at 0.
PushTx ==
    /\ pc = "input"
    /\ Len(results) < MaxRecs
    /\ \E id \in (IF results = <<>> THEN {0, 1} ELSE {results[Len(results)].id + 1}),
          rs \in SUBSET FlatKeys, ws \in SUBSET FlatKeys :
          /\ Accesses(results) + Cardinality(rs) + Cardinality(ws) <= MaxAccess
          /\ results' = Append(results, TxRWSet(id, rs, ws))
    /\ UNCHANGED <<profile, txs, pc>>
    /\ UNCHANGED execVars
    /\ UNCHANGED graphVars

\* build_conflict_graph(&txs) is called.
Call ==
    /\ pc = "input"
    /\ pc' = "build"
    /\ UNCHANGED <<profile, txs, results>>
    /\ UNCHANGED execVars
    /\ UNCHANGED graphVars

\* map.entry(k).or_default().insert(id), for every k of ks
IndexAll(m, ks, id) ==
    [k \in DOMAIN m \cup ks |->
        (IF k \in DOMAIN m THEN m[k] ELSE {}) \cup (IF k \in ks THEN {id} ELSE {})]

\* graph.entry(a).or_default().insert(b), for every <<a, b>> of edges
AddEdges(g, edges) ==
    [a \in DOMAIN g \cup {e[1] : e \in edges} |->
        (IF a \in DOMAIN g THEN g[a] ELSE {}) \cup {e[2] : e \in {d \in edges : d[1] = a}}]

\* A variant of WWEdges: only the edge from the earlier to the later writer.
WWEdgesOneWay(ws) == {p \in ws \X ws : p[1] < p[2]}

\* WW conflicts: every pair a before b of the ordered set, both directions.
WWEdges(ws) ==
    UNION {{<<p[1], p[2]>>, <<p[2], p[1]>>} : p \in {q \in ws \X ws : q[1] < q[2]}}

\* A variant of RWEdges: the writer gets the reader as a neighbor as well.
RWEdgesBothWays(ws, rs) ==
    UNION {{<<p[2], p[1]>>, <<p[1], p[2]>>} : p \in {q \in ws \X rs : q[1] # q[2]}}

\* A variant of RWEdges: without the `w != r` guard.
RWEdgesUnguarded(ws, rs) == {<<p[2], p[1]>> : p \in ws \X rs}

\* WR + RW conflicts: for w in ws, for r in rs, if w != r: graph[r] gets w.
RWEdges(ws, rs) == {<<p[2], p[1]>> : p \in {q \in ws \X rs : q[1] # q[2]}}

\* A variant of FillMissing: the last loop left out.
FillNone(g, n) == g

\* "add others": every i of 0..n-1 that is no key of the graph gets the empty set.
FillMissing(g, n) ==
    [i \in DOMAIN g \cup 0..(n - 1) |-> IF i \in DOMAIN g THEN g[i] ELSE {}]

\* One iteration of the first loop: `for tx in txs`.
IndexTx ==
    /\ pc = "build"
    /\ gi <= Len(results)
    /\ readers' = IndexAll(readers, results[gi].reads, results[gi].id)
    /\ writers' = IndexAll(writers, results[gi].writes, results[gi].id)
    /\ gi' = gi + 1
    /\ UNCHANGED <<profile, txs, results, pc, graph, visited>>
    /\ UNCHANGED execVars

\* One iteration of `for (key, ws) in &writers`, in the BTreeMap's key order.
ProcessKey ==
    /\ pc = "build"
    /\ gi > Len(results)
    /\ DOMAIN writers \ visited # {}
    /\ LET key == CHOOSE k \in DOMAIN writers \ visited :
                      \A j \in DOMAIN writers \ visited : k <= j
           ws == writers[key]
       IN /\ graph' = AddEdges(AddEdges(graph, WWEdges(ws)),
                               IF key \in DOMAIN readers
                               THEN RWEdges(ws, readers[key]) ELSE {})
          /\ visited' = visited \cup {key}
    /\ UNCHANGED <<profile, txs, results, pc, readers, writers, gi>>
    /\ UNCHANGED execVars

\* The last loop, `for i in 0..txs.len()`, and the return.
AddOthers ==
    /\ pc = "build"
    /\ gi > Len(results)
    /\ DOMAIN writers \ visited = {}
    /\ graph' = FillMissing(graph, Len(results))
    /\ pc' = "done"
    /\ UNCHANGED <<profile, txs, results, readers, writers, gi, visited>>
    /\ UNCHANGED execVars

\* ------------------------------------------------------ specifications
Start(p, profiles) ==
    /\ profile \in profiles
    /\ txs = <<>>
    /\ state = EmptyMap
    /\ results = <<>>
    /\ cur = 0
    /\ ip = 0
    /\ acc = 0
    /\ hasher = <<>>
    /\ h = 0
    /\ reads = {}
    /\ writes = {}
    /\ pc = p
    /\ readers = EmptyMap
    /\ writers = EmptyMap
    /\ graph = EmptyMap
    /\ gi = 1
    /\ visited = {}

\* serial_execute starts on an empty store; its records feed the builder.
Init == Start("serial", {"debug", "release"})

Next ==
    \/ BeginTx
    \/ ExecSLOAD
    \/ ExecSSTORE
    \/ ExecADD
    \/ ExecNOOP
    \/ EndTx
    \/ Return
    \/ IndexTx
    \/ ProcessKey
    \/ AddOthers

Spec == Init /\ [][Next]_vars

\* build_conflict_graph on records of any content; it does no arithmetic, so
\* one build profile stands for both.
GraphInit == Start("input", {"release"})

GraphNext ==
    \/ PushTx
    \/ Call
    \/ IndexTx
    \/ ProcessKey
    \/ AddOthers

GraphSpec == GraphInit /\ [][GraphNext]_vars

\* ------------------------------------------------- the graph's claims
N == Len(results)

\* The ids of the records are their positions 0..n-1.
Positional == \A i \in 1..N : results[i].id = i - 1

\* The read and write set of the record at index a of 0..n-1.
R(a) == results[a + 1].reads
W(a) == results[a + 1].writes

Built == pc = "done" /\ Positional

\* C1: with positional ids, if A reads a key that another transaction B
\* writes, B is in A's neighbor set; and A is in B's neighbor set only if A
\* and B write a common key or B reads a key that A writes.
RWAsymmetry ==
    Built =>
        \A a, b \in 0..(N - 1) :
            (a # b /\ R(a) \cap W(b) # {}) =>
                /\ b \in graph[a]
                /\ a \in graph[b] => (W(a) \cap W(b) # {} \/ R(b) \cap W(a) # {})

\* A reads what B writes and nothing creates the reverse edge; elsewhere in the
\* same batch a reverse edge exists because of a second conflict.
RWAsymmetryWitness ==
    /\ Built
    /\ \E a, b \in 0..(N - 1) :
          /\ a # b
          /\ R(a) \cap W(b) # {}
          /\ b \in graph[a]
          /\ a \notin graph[b]
    /\ \E a, b \in 0..(N - 1) :
          /\ a # b
          /\ R(a) \cap W(b) # {}
          /\ W(a) \cap W(b) = {}
          /\ R(b) \cap W(a) # {}
          /\ a \in graph[b]

\* Transaction c is neither a nor b and touches key k.
OtherTouches(a, b, k) ==
    \E c \in 0..(N - 1) : c \notin {a, b} /\ k \in R(c) \cup W(c)

\* Transaction c is neither a nor b and writes a key that a or b touches.
OtherWritesInto(a, b) ==
    \E c \in 0..(N - 1) :
        c \notin {a, b} /\ W(c) \cap (R(a) \cup W(a) \cup R(b) \cup W(b)) # {}

\* C2, as claimed: with positional ids, if A and B both write a key that no
\* other transaction touches, A's neighbor set is exactly {B} and B's is
\* exactly {A}.
WWSymmetryExact ==
    Built =>
        \A a, b \in 0..(N - 1) :
            (a # b /\ \E k \in W(a) \cap W(b) : ~OtherTouches(a, b, k)) =>
                graph[a] = {b} /\ graph[b] = {a}

\* C2, amended: with positional ids, if A and B both write a common key the
\* graph holds A->B and B->A; their neighbor sets are exactly {B} and {A} when
\* no other transaction writes any key that A or B reads or writes.
WWSymmetry ==
    Built =>
        \A a, b \in 0..(N - 1) :
            (a # b /\ W(a) \cap W(b) # {}) =>
                /\ b \in graph[a]
                /\ a \in graph[b]
                /\ ~OtherWritesInto(a, b) => (graph[a] = {b} /\ graph[b] = {a})

\* Two writers of one key, with a third transaction in the batch that reads
\* what they touch, and their neighbor sets are exactly each other.
WWSymmetryWitness ==
    /\ Built
    /\ N = 3
    /\ \E a, b \in 0..(N - 1) :
          /\ a # b
          /\ W(a) \cap W(b) # {}
          /\ ~OtherWritesInto(a, b)
          /\ \E c \in 0..(N - 1) : c \notin {a, b} /\ R(c) \cap (W(a) \cup W(b)) # {}
          /\ graph[a] = {b}
          /\ graph[b] = {a}

\* C3, as claimed: for any batch of n records the keys of the returned map are
\* exactly 0..n-1.
CompletenessAnyIds == pc = "done" => DOMAIN graph = 0..(N - 1)

\* Transaction a touches no key that another transaction writes.
NoConflict(a) ==
    \A b \in 0..(N - 1) : b # a => W(b) \cap (R(a) \cup W(a)) = {}

\* C3, amended: for any batch of n records whose ids are the positions
\* 0..n-1, the keys of the returned map are exactly 0..n-1, and an index with
\* no conflicts is mapped to the empty set.
Completeness ==
    Built =>
        /\ DOMAIN graph = 0..(N - 1)
        /\ \A a \in 0..(N - 1) : NoConflict(a) => graph[a] = {}

\* A batch where one transaction has a neighbor and another has none, and the
\* one without is a key of the map all the same.
CompletenessWitness ==
    /\ Built
    /\ N >= 2
    /\ \E a \in 0..(N - 1) : NoConflict(a) /\ a \in DOMAIN graph /\ graph[a] = {}
    /\ \E a \in 0..(N - 1) : a \in DOMAIN graph /\ graph[a] # {}

\* The reference edge relation: b writes a key that a writes or reads.
Conflicts(a, b) == a # b /\ W(b) \cap (W(a) \cup R(a)) # {}

\* C4: with positional ids, b is in graph[a] if and only if a # b and b writes
\* a key that a writes or reads; no other edge is present, none is missing.
ExactEdgeSet ==
    Built =>
        /\ DOMAIN graph = 0..(N - 1)
        /\ \A a \in 0..(N - 1) : graph[a] = {b \in 0..(N - 1) : Conflicts(a, b)}

\* A batch of three with a write-write pair, a one-way read-write edge and a
\* transaction that reads a key it also writes.
ExactEdgeSetWitness ==
    /\ Built
    /\ N = 3
    /\ \E a, b \in 0..(N - 1) : a # b /\ W(a) \cap W(b) # {} /\ b \in graph[a]
    /\ \E a, b \in 0..(N - 1) : Conflicts(a, b) /\ ~Conflicts(b, a) /\ a \notin graph[b]
    /\ \E a \in 0..(N - 1) : R(a) \cap W(a) # {} /\ a \notin graph[a]

\* ------------------------------------------- the interpreter's claims
\* The op exec_tx executed last.
LastOp == CurTx.program[ip]

InTx == pc \in {"exec", "panicked"} /\ ip > 0

\* The FlatKey of key k hashed alone.
FlatKeyOf(k) == Finish(HashWrite(NewHasher, k))

\* C5: every SLOAD(k) or SSTORE(k) exec_tx executes derives the FlatKey of k
\* alone, whatever was derived earlier in the transaction.
FlatKeyPure ==
    (InTx /\ LastOp.op \in {"SLOAD", "SSTORE"}) => h = FlatKeyOf(LastOp.key)

\* The Keys a program names in ops of the given kind.
KeysOf(program, kind) ==
    {program[i].key : i \in {j \in 1..Len(program) : program[j].op = kind}}

\* C6: the read set of every returned record has one entry per distinct Key
\* the program loads, its write set one per distinct Key it stores.
RWSetsDistinctKeys ==
    \A i \in 1..Len(results) :
        /\ Cardinality(results[i].reads) = Cardinality(KeysOf(txs[i].program, "SLOAD"))
        /\ Cardinality(results[i].writes) = Cardinality(KeysOf(txs[i].program, "SSTORE"))

\* The keys written to a fresh hasher by the first n ops of a program.
RECURSIVE Stream(_, _)
Stream(program, n) ==
    IF n = 0 THEN <<>>
    ELSE IF program[n].op \in {"SLOAD", "SSTORE"}
         THEN Append(Stream(program, n - 1), program[n].key)
         ELSE Stream(program, n - 1)

\* The reference run of the first n ops of a program on store st, from an
\* accumulator of 0, with the arithmetic of a build without overflow checks.
RECURSIVE RefRun(_, _, _)
RefRun(program, n, st) ==
    IF n = 0 THEN [acc |-> 0, state |-> st, reads |-> {}, writes |-> {}]
    ELSE LET p == RefRun(program, n - 1, st)
             op == program[n]
             fk == Finish(Stream(program, n))
         IN CASE op.op = "SLOAD" ->
                   [p EXCEPT !.acc = (@ + GetOrZero(p.state, fk)) % Modulus,
                             !.reads = @ \cup {fk}]
              [] op.op = "SSTORE" ->
                   [p EXCEPT !.state = MapInsert(@, fk, p.acc),
                             !.writes = @ \cup {fk}]
              [] op.op = "ADD" -> [p EXCEPT !.acc = (@ + op.imm) % Modulus]
              [] OTHER -> p

\* The store the reference leaves after the first j transactions of a batch.
RECURSIVE RefStore(_, _)
RefStore(batch, j) ==
    IF j = 0 THEN EmptyMap
    ELSE RefRun(batch[j].program, Len(batch[j].program), RefStore(batch, j - 1)).state

\* C7: at every point of a transaction the accumulator, the store and the
\* read and write sets are those of a run of its own ops, in program order,
\* from an accumulator of 0 on the store as it was when the transaction
\* started; the accumulator an earlier transaction ended with plays no part.
AccumulatorPerTx ==
    pc = "exec" =>
        LET r == RefRun(CurTx.program, ip, RefStore(txs, cur - 1))
        IN /\ ip = 0 => acc = 0
           /\ acc = r.acc
           /\ state = r.state
           /\ reads = r.reads
           /\ writes = r.writes

\* The first transaction stored a non-zero accumulator; the second is running
\* and has stored its own accumulator, 0, under another key.
AccumulatorPerTxWitness ==
    /\ pc = "exec"
    /\ cur = 2
    /\ \E fk \in results[1].writes : state[fk] # 0
    /\ \E fk \in writes : state[fk] = 0

NoStore(program) == \A i \in 1..Len(program) : program[i].op # "SSTORE"

NoopOnly(program) == \A i \in 1..Len(program) : program[i].op = "NOOP"

\* C8: a step of exec_tx that executes NOOP, ADD or SLOAD leaves the store as
\* it was; a program without SSTORE has an empty write set, and a program of
\* NOOPs an empty read set as well.
OnlySstoreMutates ==
    [][(pc = "exec" /\ pc' \in {"exec", "panicked"}) =>
          LET program == txs'[cur'].program
          IN /\ program[ip'].op # "SSTORE" => state' = state /\ writes' = writes
             /\ NoStore(program) => writes' = {}
             /\ NoopOnly(program) => reads' = {}]_vars

\* On a store that is not empty, a program without SSTORE has loaded a key
\* that is absent from the store.
OnlySstoreMutatesWitness ==
    /\ pc = "exec"
    /\ state # EmptyMap
    /\ ip >= 2
    /\ NoStore(CurTx.program)
    /\ LastOp.op = "SLOAD"
    /\ h \notin DOMAIN state
    /\ h \in reads

\* C9: ADD and the addition of SLOAD never abort the transaction, whatever
\* the operands and however the program was built.
OverflowNeverAborts == pc # "panicked"

\* C10: when the graph is built from the records of serial_execute, every
\* transaction A that loads or stores a Key that another transaction B stores
\* has B in its neighbor set.
HazardsDetected ==
    pc = "done" =>
        \A a, b \in 1..Len(txs) :
            (a # b /\ KeysOf(txs[b].program, "SSTORE")
                        \cap (KeysOf(txs[a].program, "SLOAD")
                                \cup KeysOf(txs[a].program, "SSTORE")) # {})
                => (b - 1) \in graph[a - 1]
=============================================================================
